---- MODULE Spec2Model ----
(***************************************************************************)
(* Preferred Python environment resolution for a notebook                  *)
(* (src/notebooks/controllers/preferredKernelConnectionService.node.ts).   *)
(*                                                                         *)
(* JavaScript values are records with a "kind" field, so that the          *)
(* truthiness tests of the source (||, ?:, if) can be modelled on the      *)
(* mixed values the source applies them to.  File system paths are         *)
(* sequences of segments; the empty sequence is the falsy path (undefined  *)
(* or '').  Environment names are sequences of characters.                 *)
(***************************************************************************)
EXTENDS Integers, Sequences, FiniteSets, TLC

\* ------------------------------------------------------------------ bounds

\* Longest list of environments handed to findPythonEnvBelongingToFolder.
MaxEnvs == 2

\* Longest list of known environments of the Python extension.
MaxKnown == 2

\* Longest list of known environments when two invocations run side by side.
MaxPairKnown == 1

\* How often the cells of the document are submitted for execution.
MaxAttempts == 3

\* ------------------------------------------------------------- JS values

Undefined == [kind |-> "undefined"]

Str(s) == [kind |-> "string", value |-> s]

Num(n) == [kind |-> "number", value |-> n]

\* A call that fails instead of yielding a value: a thrown exception or a
\* rejected promise.
Failure == [kind |-> "failure"]

\* JavaScript truthiness of a value.
Truthy(v) ==
    CASE v.kind = "undefined" -> FALSE
      [] v.kind = "string" -> v.value # ""
      [] v.kind = "number" -> v.value # 0
      [] OTHER -> TRUE

\* a || b of JavaScript: a when a is truthy, else b.
JsOr(a, b) == IF Truthy(a) THEN a ELSE b

\* The falsy path: fsPath of an absent uri, or the empty string.
NoPath == <<>>

\* a || b on paths.
PathOr(a, b) == IF a # NoPath THEN a ELSE b

\* ------------------------------------------------------------------ names

NoName == <<>>

DotVenv == <<".", "v", "e", "n", "v">>

DotConda == <<".", "c", "o", "n", "d", "a">>

\* String.prototype.toLowerCase on one character of the names used here.
LowerChar(c) ==
    CASE c = "V" -> "v"
      [] c = "E" -> "e"
      [] c = "N" -> "n"
      [] c = "C" -> "c"
      [] c = "O" -> "o"
      [] c = "D" -> "d"
      [] c = "A" -> "a"
      [] c = "P" -> "p"
      [] OTHER -> c

\* e.environment?.name?.toLowerCase(); an absent name stays absent.
ToLowerCase(name) == [i \in 1..Len(name) |-> LowerChar(name[i])]

\* ------------------------------------------------------------------ paths

\* isParentPath(filePath, parentPath): filePath lies in parentPath.
IsParentPath(filePath, parentPath) ==
    /\ Len(parentPath) <= Len(filePath)
    /\ \A i \in 1..Len(parentPath) : filePath[i] = parentPath[i]

\* path.dirname(uri): the uri without its last segment.
Dirname(uri) == IF uri = <<>> THEN <<>> ELSE SubSeq(uri, 1, Len(uri) - 1)

\* getEnvironmentType(e): the type tag of the environment.
getEnvironmentType(e) == e.type

\* A variant of EnvLocation that prefers the executable to the folder.
EnvLocationExeFirst(p) == PathOr(p.exe, PathOr(p.folder, p.path))

\* p.environment?.folderUri?.fsPath || p.executable.uri?.fsPath || p.path
EnvLocation(p) == PathOr(p.folder, PathOr(p.exe, p.path))

\* ---------------------------------------------- findPythonEnvBelongingToFolder

\* Array.prototype.find: the first element of s that is in hits, else
\* undefined (hits is the set of the elements satisfying the predicate).
Find(s, hits) ==
    LET at == {i \in 1..Len(s) : s[i] \in hits}
    IN IF at = {} THEN Undefined
       ELSE s[CHOOSE i \in at : \A j \in at : i <= j]

\* The elements of a list.
Elems(s) == {s[i] : i \in 1..Len(s)}

IsVenvDotVenv(e) ==
    getEnvironmentType(e) = "Venv" /\ ToLowerCase(e.name) = DotVenv

IsCondaDotConda(e) ==
    getEnvironmentType(e) = "Conda" /\ ToLowerCase(e.name) = DotConda

IsVirtualEnvDotVenv(e) ==
    /\ getEnvironmentType(e) \in {"VirtualEnv", "VirtualEnvWrapper"}
    /\ ToLowerCase(e.name) = DotVenv

IsDotVenvOrDotConda(e) ==
    ToLowerCase(e.name) = DotVenv \/ ToLowerCase(e.name) = DotConda

\* A variant of LocalEnvs that leaves the filter out.
LocalEnvsUnfiltered(folder, pythonEnvs) == pythonEnvs

\* pythonEnvs.filter((p) => isParentPath(location of p, folder.fsPath))
LocalEnvs(folder, pythonEnvs) ==
    LET InFolder(p) == IsParentPath(EnvLocation(p), folder)
    IN SelectSeq(pythonEnvs, InFolder)

\* The condition of the conditional expression: the || chain binds tighter
\* than ?:, so the four finds and localEnvs.length form the condition.
FindCondition(localEnvs) ==
    JsOr(Find(localEnvs, {e \in Elems(localEnvs) : IsVenvDotVenv(e)}),
      JsOr(Find(localEnvs, {e \in Elems(localEnvs) : IsCondaDotConda(e)}),
        JsOr(Find(localEnvs, {e \in Elems(localEnvs) : IsVirtualEnvDotVenv(e)}),
          JsOr(Find(localEnvs, {e \in Elems(localEnvs) : IsDotVenvOrDotConda(e)}),
               Num(Len(localEnvs))))))

\* A variant of FindResult in which the conditional expression is the last
\* operand of the || chain: (a || b || c || d || (length ? localEnvs[0] : undefined)).
FindResultRanked(localEnvs) ==
    JsOr(Find(localEnvs, {e \in Elems(localEnvs) : IsVenvDotVenv(e)}),
      JsOr(Find(localEnvs, {e \in Elems(localEnvs) : IsCondaDotConda(e)}),
        JsOr(Find(localEnvs, {e \in Elems(localEnvs) : IsVirtualEnvDotVenv(e)}),
          JsOr(Find(localEnvs, {e \in Elems(localEnvs) : IsDotVenvOrDotConda(e)}),
               IF Len(localEnvs) # 0 THEN localEnvs[1] ELSE Undefined))))

\* A variant of FindResult that picks by name without lowering its case:
\* the first environment named exactly .venv, else the first one.
FindResultExactName(localEnvs) ==
    JsOr(Find(localEnvs, {e \in Elems(localEnvs) : e.name = DotVenv}),
         IF Len(localEnvs) # 0 THEN localEnvs[1] ELSE Undefined)

\* return <condition> ? localEnvs[0] : undefined
FindResult(localEnvs) ==
    IF Truthy(FindCondition(localEnvs)) THEN localEnvs[1] ELSE Undefined

findPythonEnvBelongingToFolder(folder, pythonEnvs) ==
    FindResult(LocalEnvs(folder, pythonEnvs))

\* ------------------------------------------------------- the file system

\* The workspace root that holds the notebook, and the notebook's directory.
RootW == <<"w">>

NbDir == <<"w", "nb">>

\* Another workspace root, holding no notebook.
RootV == <<"v">>

\* A third root, holding neither notebooks nor environments.
RootX == <<"x">>

\* Where an environment can be: the raw path (its id), the environment
\* folder and the executable's path.  The folder is absent exactly when the
\* extension has no environment information, and then so is the name.
Places ==
    { [path |-> <<"w", "nb", "e1", "python">>, folder |-> <<"w", "nb", "e1">>,
       exe |-> <<"w", "nb", "e1", "python">>],
      [path |-> <<"w", "e2", "python">>, folder |-> NoPath,
       exe |-> <<"w", "e2", "python">>],
      [path |-> <<"w", "nb", "e3">>, folder |-> NoPath, exe |-> NoPath],
      [path |-> <<"w", "nb", "e4", "python">>, folder |-> <<"o", "e4">>,
       exe |-> <<"w", "nb", "e4", "python">>],
      [path |-> <<"v", "e5", "python">>, folder |-> <<"v", "e5">>,
       exe |-> <<"v", "e5", "python">>],
      [path |-> <<"w", "e6", "python">>, folder |-> <<"w", "e6">>,
       exe |-> <<"w", "e6", "python">>] }

EnvTypes == {"Venv", "Conda", "VirtualEnv", "VirtualEnvWrapper", "Unknown"}

EnvNames ==
    { DotVenv, <<".", "V", "E", "N", "V">>, DotConda,
      <<".", "C", "o", "n", "d", "a">>, <<"p", "y">>, NoName }

\* The names an environment at a place can have.
NamesAt(place) == IF place.folder = NoPath THEN {NoName} ELSE EnvNames

MkEnv(place, type, name) ==
    [kind |-> "env", path |-> place.path, folder |-> place.folder,
     exe |-> place.exe, type |-> type, name |-> name]

\* Lists of at most n environments of E with pairwise different paths (the
\* path is the environment's id).
RECURSIVE EnvLists(_, _)
EnvLists(E, n) ==
    IF n = 0 THEN {<<>>}
    ELSE LET shorter == EnvLists(E, n - 1)
         IN shorter \cup
            { Append(l[1], l[2]) :
                l \in { q \in {k \in shorter : Len(k) = n - 1} \X E :
                          \A i \in 1..Len(q[1]) : q[1][i].path # q[2].path } }

\* --------------------------------------------------------- collaborators

\* The notebook whose environment is looked up.
NotebookUri == <<"w", "nb", "a.ipynb">>

\* workspace.getWorkspaceFolder(uri): the workspace folder holding uri.
GetWorkspaceFolder(uri, folders) ==
    LET at == {i \in 1..Len(folders) : IsParentPath(uri, folders[i])}
    IN IF at = {} THEN NoPath
       ELSE folders[CHOOSE i \in at : \A j \in at : i <= j]

\* What pythonApi.environments.resolveEnvironment does with an id or a path:
\* it yields the environment's record, yields undefined, or fails.
ResolvableKeys == {"envA", "used", "dflt"}

FailingKeys == {"usedBad"}

ResolveFails(key) == key \in FailingKeys

ResolveEnvironment(key) ==
    IF key \in ResolvableKeys THEN [kind |-> "resolved", id |-> key]
    ELSE Undefined

\* ------------------------------------------ findPythonEnvironmentClosestToNotebook

\* A variant of DefaultFolder that takes the first workspace root whenever
\* there is one (length >= 1 in place of length === 1).
DefaultFolderFirstRoot(notebookUri, folders) ==
    PathOr(GetWorkspaceFolder(notebookUri, folders),
           IF Len(folders) >= 1 THEN folders[1] ELSE NoPath)

\* workspace.getWorkspaceFolder(notebook.uri)?.uri ||
\* (workspace.workspaceFolders?.length === 1 ? workspaceFolders[0].uri : undefined)
DefaultFolder(notebookUri, folders) ==
    PathOr(GetWorkspaceFolder(notebookUri, folders),
           IF Len(folders) = 1 THEN folders[1] ELSE NoPath)

\* A variant of findPythonEnvironmentClosestToNotebook that searches the
\* default folder before the notebook's directory.
ClosestToNotebookDefaultFirst(notebookUri, folders, envs) ==
    LET defaultFolder == DefaultFolder(notebookUri, folders)
        inDefault ==
            IF defaultFolder # NoPath
            THEN findPythonEnvBelongingToFolder(defaultFolder, envs)
            ELSE Undefined
    IN IF Truthy(inDefault) THEN inDefault
       ELSE findPythonEnvBelongingToFolder(Dirname(notebookUri), envs)

findPythonEnvironmentClosestToNotebook(notebookUri, folders, envs) ==
    LET defaultFolder == DefaultFolder(notebookUri, folders)
        localEnvNextToNbFile ==
            findPythonEnvBelongingToFolder(Dirname(notebookUri), envs)
    IN IF Truthy(localEnvNextToNbFile) THEN localEnvNextToNbFile
       ELSE IF defaultFolder # NoPath
            THEN findPythonEnvBelongingToFolder(defaultFolder, envs)
            ELSE Undefined

\* pythonApi.environments.known.filter((e) => !filter.isPythonEnvironmentExcluded(e))
NotExcluded(envs, excl) ==
    LET Keep(e) == e.path \notin excl
    IN SelectSeq(envs, Keep)

\* ---------------------------------------------------------------- state

VARIABLES
    folderArg,   \* findPythonEnvBelongingToFolder: the folder argument
    envsArg,     \* findPythonEnvBelongingToFolder: the pythonEnvs argument
    folderPc,    \* "ready" before the call, "returned" after it
    folderRet,   \* the value returned by the call
    known,       \* pythonApi.environments.known
    excluded,    \* ids of the environments the filter excludes
    workspaceFolders,        \* workspace.workspaceFolders
    assigned,    \* notebookEnvironment.getPythonEnvironment(notebook.uri)
    lastUsed,    \* what getLastUsedEnvInLmTool(notebook.uri) resolves to
    defaultInterpreterPath,  \* the python.defaultInterpreterPath setting
    pc,          \* where the invocation of findPreferredPythonEnvironment is
    resolveArg,  \* the argument of the pending resolveEnvironment call
    calls,       \* the collaborators called by the invocation, in order
    ret,         \* the value the invocation returned
    pc2,         \* where a second, concurrent invocation is
    resolveArg2, \* the argument of its pending resolveEnvironment call
    calls2,      \* the collaborators it called, in order
    ret2,        \* the value it returned
    cellCount,   \* the number of code cells of the document under test
    installed,   \* whether the selected interpreter has ipykernel
    kernel,      \* where the start of the kernel for that interpreter is
    displayCount,            \* prompt.getDisplayCount() of the hijacked prompt
    runs,        \* how often the cells were submitted for execution
    toSubmit,    \* the cells of the current submission not yet queued
    cellState,   \* the execution state of each cell
    cellOutput   \* the output of each cell

folderVars == <<folderArg, envsArg, folderPc, folderRet>>

snapshotVars ==
    <<known, excluded, workspaceFolders, assigned, lastUsed,
      defaultInterpreterPath>>

callVars == <<pc, resolveArg, calls, ret>>

call2Vars == <<pc2, resolveArg2, calls2, ret2>>

promptVars ==
    <<cellCount, installed, kernel, displayCount, runs, toSubmit, cellState,
      cellOutput>>

vars == <<folderVars, snapshotVars, callVars, call2Vars, promptVars>>

\* The environments the folder search is exercised on: every type and
\* name at every place of the notebook's workspace root.
FolderEnvs ==
    UNION { { MkEnv(p, t, n) : t \in EnvTypes, n \in NamesAt(p) } :
            p \in {q \in Places : q.path[1] = "w"} }

FolderArgs == {NbDir, RootW}

\* The known environments the resolver is exercised on.
KnownEnvs ==
    { MkEnv(p, k[1], k[2]) :
        p \in {q \in Places : q.folder # NoPath},
        k \in {<<"Venv", DotVenv>>, <<"Unknown", <<"p", "y">> >>} }

WorkspaceFolderLists ==
    { <<>>, <<RootW>>, <<RootV>>, <<RootW, RootV>>, <<RootV, RootX>> }

AssignedEnvs ==
    { Undefined, [kind |-> "env", id |-> "envA"],
      [kind |-> "env", id |-> "envGone"] }

LastUsedEnvs == { Undefined, Str("used"), Str("usedBad"), Failure }

DefaultInterpreterPaths ==
    { Undefined, Str(""), Str("dflt"), Str("dfltGone"), Failure }

\* No invocation of the resolver is under way.
NoCall ==
    /\ pc = "idle"
    /\ resolveArg = ""
    /\ calls = <<>>
    /\ ret = Undefined

\* No second invocation of the resolver is under way.
NoCall2 ==
    /\ pc2 = "idle"
    /\ resolveArg2 = ""
    /\ calls2 = <<>>
    /\ ret2 = Undefined

\* The three cells of the submitted Python file: print(1), print(2), print(3).
NumCells == 3

\* What each cell prints.
Printed == <<"1", "2", "3">>

Cells == 1..NumCells

\* No output on a cell, and the error output with the install instructions.
NoOutput == ""
ErrorOutput == "error"

\* No cell has been submitted: a document opened on an interpreter without
\* ipykernel, no kernel started, the prompt never displayed.
NoRun ==
    /\ installed = FALSE
    /\ kernel = "none"
    /\ displayCount = 0
    /\ runs = 0
    /\ toSubmit = 0
    /\ cellState = [i \in Cells |-> "idle"]
    /\ cellOutput = [i \in Cells |-> NoOutput]

\* No call of the folder search is under way.
NoFolderCall ==
    /\ folderArg = NbDir
    /\ envsArg = <<>>
    /\ folderPc = "idle"
    /\ folderRet = Undefined

\* -------------------------------------- findPythonEnvBelongingToFolder alone

FolderInit ==
    /\ folderArg \in FolderArgs
    /\ envsArg \in EnvLists(FolderEnvs, MaxEnvs)
    /\ folderPc = "ready"
    /\ folderRet = Undefined
    /\ known = <<>>
    /\ excluded = {}
    /\ workspaceFolders = <<>>
    /\ assigned = Undefined
    /\ lastUsed = Undefined
    /\ defaultInterpreterPath = Undefined
    /\ NoCall
    /\ NoCall2
    /\ cellCount = 1
    /\ NoRun

\* A caller applies findPythonEnvBelongingToFolder to its arguments.
FolderCall ==
    /\ folderPc = "ready"
    /\ folderRet' = findPythonEnvBelongingToFolder(folderArg, envsArg)
    /\ folderPc' = "returned"
    /\ UNCHANGED <<folderArg, envsArg, snapshotVars, callVars, call2Vars, promptVars>>

FolderNext == FolderCall

SpecFolder == FolderInit /\ [][FolderNext]_vars

\* ------------------------------------------- findPreferredPythonEnvironment

Init ==
    /\ known \in EnvLists(KnownEnvs, MaxKnown)
    /\ excluded \in SUBSET {known[i].path : i \in 1..Len(known)}
    /\ workspaceFolders \in WorkspaceFolderLists
    /\ assigned \in AssignedEnvs
    /\ lastUsed \in LastUsedEnvs
    /\ defaultInterpreterPath \in DefaultInterpreterPaths
    /\ NoCall
    /\ NoCall2
    /\ NoFolderCall
    /\ cellCount = 1
    /\ NoRun

\* A variant of LocalEnv that does not apply the exclusion filter.
LocalEnvUnfiltered ==
    findPythonEnvironmentClosestToNotebook(NotebookUri, workspaceFolders, known)

\* Step 1 of the invocation: the folder-local environment, if any.
LocalEnv ==
    findPythonEnvironmentClosestToNotebook(
        NotebookUri, workspaceFolders, NotExcluded(known, excluded))

\* A variant of StartResolve that resolves once to test the result and once
\* more to return it.
StartResolveTwice(arg, made) ==
    /\ resolveArg' = arg
    /\ calls' = Append(Append(made, "resolveEnvironment"), "resolveEnvironment")
    /\ pc' = "awaitResolve"
    /\ ret' = ret

\* return pythonApi.environments.resolveEnvironment(arg): the call is made
\* and the invocation waits for it to settle.
StartResolve(arg, made) ==
    /\ resolveArg' = arg
    /\ calls' = Append(made, "resolveEnvironment")
    /\ pc' = "awaitResolve"
    /\ ret' = ret

\* The synchronous part of the invocation, up to its first await or return,
\* with localEnv the result of step 1 and env the notebook's assigned
\* environment.
InvokeWith(localEnv, env) ==
    /\ pc = "idle"
    /\ IF Truthy(localEnv)
       THEN /\ ret' = localEnv
            /\ pc' = "returned"
            /\ UNCHANGED <<resolveArg, calls>>
       ELSE LET made == Append(calls, "getPythonEnvironment")
            IN IF Truthy(env)
               THEN StartResolve(env.id, made)
               ELSE /\ calls' = Append(made, "getLastUsedEnvInLmTool")
                    /\ pc' = "awaitLastUsed"
                    /\ UNCHANGED <<resolveArg, ret>>
    /\ UNCHANGED <<folderVars, snapshotVars, call2Vars, promptVars>>

\* A variant of Invoke that never asks for the assigned environment's record.
InvokeSkipsAssigned == InvokeWith(LocalEnv, Undefined)

\* A variant of Invoke without the early return of step 1.
InvokeIgnoresLocalEnv == InvokeWith(Undefined, assigned)

Invoke == InvokeWith(LocalEnv, assigned)

\* await getLastUsedEnvInLmTool settles with lastUsedEnv; the invocation runs
\* on to its next await or return, reading the setting when it gets there.
\* Nothing catches a rejection of the awaited promise or an exception of the
\* configuration read: either ends the invocation as a failure.
LastUsedSettlesWith(lastUsedEnv, setting) ==
    /\ pc = "awaitLastUsed"
    /\ IF lastUsedEnv = Failure
       THEN /\ pc' = "threw"
            /\ UNCHANGED <<resolveArg, calls, ret>>
       ELSE IF Truthy(lastUsedEnv)
       THEN StartResolve(lastUsedEnv.value, calls)
       ELSE LET made == Append(calls, "getConfiguration")
            IN IF setting = Failure
               THEN /\ calls' = made
                    /\ pc' = "threw"
                    /\ UNCHANGED <<resolveArg, ret>>
               ELSE IF Truthy(setting)
               THEN StartResolve(setting.value, made)
               ELSE /\ calls' = made
                    /\ ret' = Undefined
                    /\ pc' = "returned"
                    /\ UNCHANGED resolveArg
    /\ UNCHANGED <<folderVars, snapshotVars, call2Vars, promptVars>>

\* A variant of LastUsedSettles that prefers the setting to the usage tracker.
LastUsedSettlesSettingFirst ==
    LastUsedSettlesWith(
        IF Truthy(defaultInterpreterPath) THEN Undefined ELSE lastUsed,
        defaultInterpreterPath)

\* A variant of LastUsedSettles that never falls back to the setting.
LastUsedSettlesNoSetting == LastUsedSettlesWith(lastUsed, Undefined)

LastUsedSettles == LastUsedSettlesWith(lastUsed, defaultInterpreterPath)

\* A variant of ResolveSettles that catches the failure and yields undefined.
ResolveSettlesSwallows ==
    /\ pc = "awaitResolve"
    /\ pc' = "returned"
    /\ ret' = IF ResolveFails(resolveArg) THEN Undefined
              ELSE ResolveEnvironment(resolveArg)
    /\ UNCHANGED <<resolveArg, calls, folderVars, snapshotVars, call2Vars, promptVars>>

\* The returned resolveEnvironment promise settles: its value is the
\* invocation's result, its failure the invocation's failure.
ResolveSettles ==
    /\ pc = "awaitResolve"
    /\ IF ResolveFails(resolveArg)
       THEN /\ pc' = "threw"
            /\ ret' = ret
       ELSE /\ pc' = "returned"
            /\ ret' = ResolveEnvironment(resolveArg)
    /\ UNCHANGED <<resolveArg, calls, folderVars, snapshotVars, call2Vars, promptVars>>

\* The caller takes the outcome; the resolver can be invoked again.
Finish ==
    /\ pc \in {"returned", "threw"}
    /\ pc' = "idle"
    /\ resolveArg' = ""
    /\ calls' = <<>>
    /\ ret' = Undefined
    /\ UNCHANGED <<folderVars, snapshotVars, call2Vars, promptVars>>

Next == Invoke \/ LastUsedSettles \/ ResolveSettles \/ Finish

Spec == Init /\ [][Next]_vars

\* ----------------------- two invocations of findPreferredPythonEnvironment

\* A second invocation for the same notebook runs the same code on the same
\* collaborators; the two interleave at their awaits.

PairInit ==
    /\ known \in EnvLists(KnownEnvs, MaxPairKnown)
    /\ excluded \in SUBSET {known[i].path : i \in 1..Len(known)}
    /\ workspaceFolders \in WorkspaceFolderLists
    /\ assigned \in AssignedEnvs
    /\ lastUsed \in LastUsedEnvs
    /\ defaultInterpreterPath \in DefaultInterpreterPaths
    /\ NoCall
    /\ NoCall2
    /\ NoFolderCall
    /\ cellCount = 1
    /\ NoRun

StartResolve2(arg, made) ==
    /\ resolveArg2' = arg
    /\ calls2' = Append(made, "resolveEnvironment")
    /\ pc2' = "awaitResolve"
    /\ ret2' = ret2

Invoke2 ==
    /\ pc2 = "idle"
    /\ IF Truthy(LocalEnv)
       THEN /\ ret2' = LocalEnv
            /\ pc2' = "returned"
            /\ UNCHANGED <<resolveArg2, calls2>>
       ELSE LET made == Append(calls2, "getPythonEnvironment")
            IN IF Truthy(assigned)
               THEN StartResolve2(assigned.id, made)
               ELSE /\ calls2' = Append(made, "getLastUsedEnvInLmTool")
                    /\ pc2' = "awaitLastUsed"
                    /\ UNCHANGED <<resolveArg2, ret2>>
    /\ UNCHANGED <<folderVars, snapshotVars, callVars, promptVars>>

LastUsedSettles2 ==
    /\ pc2 = "awaitLastUsed"
    /\ IF lastUsed = Failure
       THEN /\ pc2' = "threw"
            /\ UNCHANGED <<resolveArg2, calls2, ret2>>
       ELSE IF Truthy(lastUsed)
       THEN StartResolve2(lastUsed.value, calls2)
       ELSE LET made == Append(calls2, "getConfiguration")
            IN IF defaultInterpreterPath = Failure
               THEN /\ calls2' = made
                    /\ pc2' = "threw"
                    /\ UNCHANGED <<resolveArg2, ret2>>
               ELSE IF Truthy(defaultInterpreterPath)
               THEN StartResolve2(defaultInterpreterPath.value, made)
               ELSE /\ calls2' = made
                    /\ ret2' = Undefined
                    /\ pc2' = "returned"
                    /\ UNCHANGED resolveArg2
    /\ UNCHANGED <<folderVars, snapshotVars, callVars, promptVars>>

\* A variant of ResolveSettles2 in which the two invocations share one
\* pending request: the one that settles second finds it already consumed.
ResolveSettles2Shared ==
    /\ pc2 = "awaitResolve"
    /\ IF ResolveFails(resolveArg2)
       THEN /\ pc2' = "threw"
            /\ ret2' = ret2
       ELSE /\ pc2' = "returned"
            /\ ret2' = IF pc = "returned" /\ resolveArg = resolveArg2
                       THEN Undefined
                       ELSE ResolveEnvironment(resolveArg2)
    /\ UNCHANGED <<resolveArg2, calls2, folderVars, snapshotVars, callVars, promptVars>>

ResolveSettles2 ==
    /\ pc2 = "awaitResolve"
    /\ IF ResolveFails(resolveArg2)
       THEN /\ pc2' = "threw"
            /\ ret2' = ret2
       ELSE /\ pc2' = "returned"
            /\ ret2' = ResolveEnvironment(resolveArg2)
    /\ UNCHANGED <<resolveArg2, calls2, folderVars, snapshotVars, callVars, promptVars>>

Finish2 ==
    /\ pc2 \in {"returned", "threw"}
    /\ pc2' = "idle"
    /\ resolveArg2' = ""
    /\ calls2' = <<>>
    /\ ret2' = Undefined
    /\ UNCHANGED <<folderVars, snapshotVars, callVars, promptVars>>

PairNext ==
    \/ Invoke \/ LastUsedSettles \/ ResolveSettles \/ Finish
    \/ Invoke2 \/ LastUsedSettles2 \/ ResolveSettles2 \/ Finish2

SpecPair == PairInit /\ [][PairNext]_vars

\* ------------------------------------------------ the ipykernel install prompt

\* A document with one to three code cells is open on an interpreter
\* without ipykernel; the resolver plays no part.
PromptInit ==
    /\ cellCount \in Cells
    /\ NoRun
    /\ known = <<>>
    /\ excluded = {}
    /\ workspaceFolders = <<>>
    /\ assigned = Undefined
    /\ lastUsed = Undefined
    /\ defaultInterpreterPath = Undefined
    /\ NoCall
    /\ NoCall2
    /\ NoFolderCall

ResolverIdle == UNCHANGED <<folderVars, snapshotVars, callVars, call2Vars>>

\* The cells of the document.
OpenCells == 1..cellCount

\* The cells that await execution.
Queued == {i \in OpenCells : cellState[i] = "queued"}

\* An execution is under way: cells are being submitted, queued or run, or
\* the prompt or the installer is up.
Busy ==
    \/ toSubmit > 0
    \/ \E i \in OpenCells : cellState[i] \in {"queued", "running"}
    \/ kernel \in {"prompting", "dismissed", "installing"}

\* runAllCellsInActiveNotebook, or submitting the cells of the Python file:
\* every cell of the document is handed over for execution.
RunAllCells ==
    /\ runs < MaxAttempts
    /\ ~Busy
    /\ runs' = runs + 1
    /\ toSubmit' = cellCount
    /\ UNCHANGED <<cellCount, installed, kernel, displayCount, cellState,
                   cellOutput>>
    /\ ResolverIdle

\* The next cell of the submission enters the execution queue; its outputs
\* of the earlier run are cleared.
QueueCell ==
    /\ toSubmit > 0
    /\ LET i == cellCount - toSubmit + 1
       IN /\ cellState' = [cellState EXCEPT ![i] = "queued"]
          /\ cellOutput' = [cellOutput EXCEPT ![i] = NoOutput]
    /\ toSubmit' = toSubmit - 1
    /\ UNCHANGED <<cellCount, installed, kernel, displayCount, runs>>
    /\ ResolverIdle

\* A variant of ShowPrompt that remembers a dismissal: the prompt is
\* displayed only if it never was.
ShowPromptOnce ==
    /\ kernel = "none"
    /\ ~installed
    /\ Queued # {}
    /\ displayCount = 0
    /\ kernel' = "prompting"
    /\ displayCount' = displayCount + 1
    /\ UNCHANGED <<cellCount, installed, runs, toSubmit, cellState,
                   cellOutput>>
    /\ ResolverIdle

\* A variant of ShowPrompt that displays the prompt for every queued cell.
ShowPromptPerCell ==
    /\ kernel \in {"none", "prompting"}
    /\ ~installed
    /\ Queued # {}
    /\ kernel = "prompting" => displayCount < Cardinality(Queued)
    /\ kernel' = "prompting"
    /\ displayCount' = displayCount + 1
    /\ UNCHANGED <<cellCount, installed, runs, toSubmit, cellState,
                   cellOutput>>
    /\ ResolverIdle

\* Starting the kernel for the queued cells finds ipykernel missing and
\* displays the install prompt, once for the start of the kernel.
ShowPrompt ==
    /\ kernel = "none"
    /\ ~installed
    /\ Queued # {}
    /\ kernel' = "prompting"
    /\ displayCount' = displayCount + 1
    /\ UNCHANGED <<cellCount, installed, runs, toSubmit, cellState,
                   cellOutput>>
    /\ ResolverIdle

\* hijackPrompt with { dismissPrompt: true }: the prompt is dismissed.
DismissPrompt ==
    /\ kernel = "prompting"
    /\ kernel' = "dismissed"
    /\ UNCHANGED <<cellCount, installed, displayCount, runs, toSubmit,
                   cellState, cellOutput>>
    /\ ResolverIdle

\* prompt.clickButton(Common.install)
ClickInstall ==
    /\ kernel = "prompting"
    /\ kernel' = "installing"
    /\ UNCHANGED <<cellCount, installed, displayCount, runs, toSubmit,
                   cellState, cellOutput>>
    /\ ResolverIdle

\* After a dismissal the execution stops for the missing dependency: every
\* submitted cell stops with the error output.
FailCells ==
    /\ kernel = "dismissed"
    /\ toSubmit = 0
    /\ cellState' = [i \in Cells |->
                        IF i \in Queued THEN "error" ELSE cellState[i]]
    /\ cellOutput' = [i \in Cells |->
                        IF i \in Queued THEN ErrorOutput ELSE cellOutput[i]]
    /\ kernel' = "none"
    /\ UNCHANGED <<cellCount, installed, displayCount, runs, toSubmit>>
    /\ ResolverIdle

\* The installation of ipykernel ends and the kernel starts.
InstallCompletes ==
    /\ kernel = "installing"
    /\ installed' = TRUE
    /\ kernel' = "started"
    /\ UNCHANGED <<cellCount, displayCount, runs, toSubmit, cellState,
                   cellOutput>>
    /\ ResolverIdle

\* The kernel takes the first queued cell once no other cell is running.
ExecuteCell ==
    /\ kernel = "started"
    /\ Queued # {}
    /\ \A i \in OpenCells : cellState[i] # "running"
    /\ LET i == CHOOSE c \in Queued : \A d \in Queued : c <= d
       IN cellState' = [cellState EXCEPT ![i] = "running"]
    /\ UNCHANGED <<cellCount, installed, kernel, displayCount, runs,
                   toSubmit, cellOutput>>
    /\ ResolverIdle

\* The running cell completes successfully with what it prints.
CompleteCell ==
    /\ \E i \in OpenCells :
          /\ cellState[i] = "running"
          /\ cellState' = [cellState EXCEPT ![i] = "success"]
          /\ cellOutput' = [cellOutput EXCEPT ![i] = Printed[i]]
    /\ UNCHANGED <<cellCount, installed, kernel, displayCount, runs,
                   toSubmit>>
    /\ ResolverIdle

PromptNext ==
    \/ RunAllCells
    \/ QueueCell
    \/ ShowPrompt
    \/ DismissPrompt
    \/ ClickInstall
    \/ FailCells
    \/ InstallCompletes
    \/ ExecuteCell
    \/ CompleteCell

\* The extension's own steps are taken whenever they stay possible; whether
\* and when the user runs the cells or answers the prompt is left open.
PromptFairness ==
    /\ WF_vars(QueueCell)
    /\ WF_vars(ShowPrompt)
    /\ WF_vars(FailCells)
    /\ WF_vars(InstallCompletes)
    /\ WF_vars(ExecuteCell)
    /\ WF_vars(CompleteCell)

SpecPrompt == PromptInit /\ [][PromptNext]_vars /\ PromptFairness

\* ------------------------------------------------- what the claims speak of

\* The location of an environment as the specification words it: the
\* environment folder if present, else the executable's, else the raw path.
StatedLocation(e) ==
    IF e.folder # NoPath THEN e.folder
    ELSE IF e.exe # NoPath THEN e.exe
    ELSE e.path

\* e is located under folder.
LocatedUnder(e, folder) == IsParentPath(StatedLocation(e), folder)

\* The positions of the candidates located under the folder argument.
Survivors == {i \in 1..Len(envsArg) : LocatedUnder(envsArg[i], folderArg)}

\* The ranked preferences a to d of the folder-proximity filter.
RuleA(e) == e.type = "Venv" /\ ToLowerCase(e.name) = DotVenv

RuleB(e) == e.type = "Conda" /\ ToLowerCase(e.name) = DotConda

RuleC(e) ==
    e.type \in {"VirtualEnv", "VirtualEnvWrapper"} /\ ToLowerCase(e.name) = DotVenv

RuleD(e) == ToLowerCase(e.name) \in {DotVenv, DotConda}

MatchesSomeRule(e) == RuleA(e) \/ RuleB(e) \/ RuleC(e) \/ RuleD(e)

\* The least position of a non-empty set of positions.
FirstOf(at) == CHOOSE i \in at : \A j \in at : i <= j

\* The reference ranking over the survivors: a, else b, else c, else d, else
\* the first survivor, else absent.
RankedChoice ==
    LET a == {i \in Survivors : RuleA(envsArg[i])}
        b == {i \in Survivors : RuleB(envsArg[i])}
        c == {i \in Survivors : RuleC(envsArg[i])}
        d == {i \in Survivors : RuleD(envsArg[i])}
    IN IF a # {} THEN envsArg[FirstOf(a)]
       ELSE IF b # {} THEN envsArg[FirstOf(b)]
       ELSE IF c # {} THEN envsArg[FirstOf(c)]
       ELSE IF d # {} THEN envsArg[FirstOf(d)]
       ELSE IF Survivors # {} THEN envsArg[FirstOf(Survivors)]
       ELSE Undefined

\* The positions of the known environments the filter does not exclude.
Kept == {i \in 1..Len(known) : known[i].path \notin excluded}

\* The known environments the filter does not exclude, in list order.
KeptEnvs ==
    LET IsKept(e) == e.path \notin excluded
    IN SelectSeq(known, IsKept)

\* The workspace roots that hold the notebook.
RootsOfNotebook ==
    {i \in 1..Len(workspaceFolders) :
        IsParentPath(NotebookUri, workspaceFolders[i])}

\* The fallback folder of step 1: the workspace folder that holds the
\* notebook, else the only workspace root, else none.
StatedFallback ==
    IF RootsOfNotebook # {} THEN workspaceFolders[FirstOf(RootsOfNotebook)]
    ELSE IF Len(workspaceFolders) = 1 THEN workspaceFolders[1]
    ELSE NoPath

\* Some environment that is not excluded lies under the notebook's directory.
HasEnvNextToNotebook == \E i \in Kept : LocatedUnder(known[i], NbDir)

\* Some environment that is not excluded lies under the notebook's directory
\* or under the fallback folder: step 1 has something to find.
HasLocalEnv ==
    \/ HasEnvNextToNotebook
    \/ /\ StatedFallback # NoPath
       /\ \E i \in Kept : LocatedUnder(known[i], StatedFallback)

\* The usage tracker yields an entry for the notebook.
TrackerHasEntry == lastUsed.kind = "string" /\ lastUsed.value # ""

\* The usage tracker yields nothing for the notebook (and does not fail).
TrackerIsEmpty == lastUsed = Undefined

\* The setting holds a non-empty string.
DefaultIsSet ==
    defaultInterpreterPath.kind = "string" /\ defaultInterpreterPath.value # ""

\* ------------------------------------------------------------------ claims

\* C1: when exactly one environment under the folder is a Venv named .venv
\* and no other environment under the folder matches a name/type rule, the
\* folder search returns that .venv environment, wherever it is in the list.
C1_SoleDotVenvReturned ==
    folderPc = "returned" =>
        \A i \in Survivors :
            ( ( /\ RuleA(envsArg[i])
                /\ \A j \in Survivors \ {i} : ~MatchesSomeRule(envsArg[j]) )
              => folderRet = envsArg[i] )

\* C2: when a Venv named .venv and a Conda named .conda are both under the
\* folder, the folder search returns a Venv named .venv, in either order.
C2_DotVenvBeforeDotConda ==
    ( /\ folderPc = "returned"
      /\ \E i \in Survivors : RuleA(envsArg[i])
      /\ \E j \in Survivors : RuleB(envsArg[j]) )
    => (folderRet # Undefined /\ RuleA(folderRet))

\* C3: the folder search returns what the reference ranking over the
\* survivors returns; a survivor named .venv or .conda is chosen over a
\* survivor of any other name.
C3_ResultIsRankedChoice ==
    folderPc = "returned" => folderRet = RankedChoice

\* C8: the folder search returns absent for an empty list, and returns the
\* sole candidate under the folder when its name is neither .venv nor
\* .conda, whatever lies outside the folder and wherever it is in the list.
C8_EmptyAndSoleCandidate ==
    folderPc = "returned" =>
        /\ (envsArg = <<>> => folderRet = Undefined)
        /\ \A i \in Survivors :
              ( (Survivors = {i} /\ ~RuleD(envsArg[i]))
                => folderRet = envsArg[i] )

\* C8 witness: the sole candidate under the folder, of another name, is
\* second in the list behind a candidate outside the folder, and is returned.
C8_Witness ==
    /\ folderPc = "returned"
    /\ Len(envsArg) = 2
    /\ Survivors = {2}
    /\ ~RuleD(envsArg[2])
    /\ RuleD(envsArg[1])
    /\ folderRet = envsArg[2]

\* C9: an environment returned by the folder search is an element of the
\* input list and is located under the folder.
C9_ResultIsSurvivor ==
    (folderPc = "returned" /\ folderRet # Undefined) =>
        \E i \in Survivors : folderRet = envsArg[i]

\* C9 witness: the only candidate named .venv lies outside the folder
\* although its executable lies inside, and another candidate is returned.
C9_Witness ==
    /\ folderPc = "returned"
    /\ Len(envsArg) = 2
    /\ Survivors = {2}
    /\ RuleA(envsArg[1])
    /\ envsArg[1].folder # NoPath
    /\ IsParentPath(envsArg[1].exe, folderArg)
    /\ folderRet = envsArg[2]

\* C4: with nothing for step 1 to find and an environment assigned to the
\* notebook, the invocation returns the resolution of the assigned
\* environment's id, whatever the usage tracker and the setting hold.
C4_AssignedEnvResolved ==
    (~HasLocalEnv /\ Truthy(assigned)) =>
        /\ pc \notin {"awaitLastUsed", "threw"}
        /\ pc = "awaitResolve" => resolveArg = assigned.id
        /\ pc = "returned" => ret = ResolveEnvironment(assigned.id)

\* C4 witness: the assigned environment's resolution is returned although
\* the usage tracker has an entry and the setting is set.
C4_Witness ==
    /\ pc = "returned"
    /\ ~HasLocalEnv
    /\ assigned.kind = "env" /\ assigned.id = "envA"
    /\ TrackerHasEntry
    /\ DefaultIsSet
    /\ ret = [kind |-> "resolved", id |-> "envA"]

\* C5: with nothing for step 1 to find, no assigned environment and a
\* usage-tracker entry, the invocation resolves and returns that entry, not
\* the setting, even when the setting is set.
C5_LastUsedBeforeDefault ==
    (~HasLocalEnv /\ ~Truthy(assigned) /\ TrackerHasEntry) =>
        /\ pc \in {"awaitResolve", "returned", "threw"}
              => resolveArg = lastUsed.value
        /\ pc = "returned" => ret = ResolveEnvironment(lastUsed.value)

\* C5 witness: the usage-tracker entry's resolution is returned while the
\* setting is set.
C5_Witness ==
    /\ pc = "returned"
    /\ ~HasLocalEnv
    /\ ~Truthy(assigned)
    /\ lastUsed = Str("used")
    /\ defaultInterpreterPath = Str("dflt")
    /\ ret = [kind |-> "resolved", id |-> "used"]

\* C6: when step 1, the assigned environment and the usage tracker all yield
\* nothing, the invocation returns the resolution of the setting if it is a
\* non-empty string, and absent otherwise (the setting being readable).
C6_DefaultElseAbsent ==
    ( /\ ~HasLocalEnv
      /\ ~Truthy(assigned)
      /\ TrackerIsEmpty
      /\ defaultInterpreterPath # Failure ) =>
        /\ pc # "threw"
        /\ pc = "returned" =>
              ret = IF DefaultIsSet
                    THEN ResolveEnvironment(defaultInterpreterPath.value)
                    ELSE Undefined

\* C6 witness: the setting's resolution is returned as the last resort.
C6_Witness ==
    /\ pc = "returned"
    /\ ~HasLocalEnv
    /\ ~Truthy(assigned)
    /\ TrackerIsEmpty
    /\ defaultInterpreterPath = Str("dflt")
    /\ ret = [kind |-> "resolved", id |-> "dflt"]

\* C7: within an invocation no collaborator of a later step is called once a
\* step has found a candidate: none at all after step 1 found an environment,
\* neither the usage tracker nor the setting after the assigned environment
\* was found, not the setting after the usage tracker had an entry.
C7_ShortCircuit ==
    /\ HasLocalEnv => calls = <<>>
    /\ Truthy(assigned) =>
          \A i \in 1..Len(calls) :
              calls[i] \notin {"getLastUsedEnvInLmTool", "getConfiguration"}
    /\ TrackerHasEntry =>
          \A i \in 1..Len(calls) : calls[i] # "getConfiguration"

\* C7 witness: an invocation has returned the assigned environment having
\* called only the assigned-environment service and resolveEnvironment,
\* while the usage tracker has an entry and the setting is set.
C7_Witness ==
    /\ pc = "returned"
    /\ ~HasLocalEnv
    /\ Truthy(assigned)
    /\ TrackerHasEntry
    /\ DefaultIsSet
    /\ calls = <<"getPythonEnvironment", "resolveEnvironment">>

\* C10 as first stated: step 1 returns an environment that is not under the
\* notebook's directory only when exactly one workspace root exists.
C10_FallbackOnlyWithOneRoot ==
    ( /\ pc = "returned"
      /\ calls = <<>>
      /\ ~LocatedUnder(ret, NbDir) )
    => Len(workspaceFolders) = 1

\* C10, amended: step 1 searches the notebook's directory first and returns
\* its match; only when that search yields nothing does it search the
\* fallback folder, which is the workspace folder holding the notebook, else
\* the only workspace root when exactly one exists; otherwise step 1 yields
\* nothing.  No environment outside the notebook's directory is returned
\* while an environment that is not excluded lies under it.
C10_NotebookDirFirst ==
    pc = "returned" =>
        LET nextToNb == findPythonEnvBelongingToFolder(NbDir, KeptEnvs)
            inFallback ==
                IF StatedFallback = NoPath THEN Undefined
                ELSE findPythonEnvBelongingToFolder(StatedFallback, KeptEnvs)
        IN /\ IF Truthy(nextToNb) THEN calls = <<>> /\ ret = nextToNb
              ELSE IF Truthy(inFallback) THEN calls = <<>> /\ ret = inFallback
              ELSE calls # <<>>
           /\ HasEnvNextToNotebook => LocatedUnder(ret, NbDir)

\* C10 witness: with two workspace roots, step 1 has returned an environment
\* of the notebook's workspace folder that is not under the notebook's
\* directory.
C10_Witness ==
    /\ pc = "returned"
    /\ calls = <<>>
    /\ Len(workspaceFolders) = 2
    /\ ~LocatedUnder(ret, NbDir)
    /\ LocatedUnder(ret, RootW)

\* Whether the collaborator call at position i of the invocation's log fails.
CallFails(i) ==
    \/ calls[i] = "getLastUsedEnvInLmTool" /\ lastUsed = Failure
    \/ calls[i] = "getConfiguration" /\ defaultInterpreterPath = Failure
    \/ calls[i] = "resolveEnvironment" /\ resolveArg \in FailingKeys

\* C12: a failure of resolveEnvironment, of getLastUsedEnvInLmTool or of the
\* configuration read ends the invocation as a failure: the failing call is
\* the invocation's last call, and the invocation never returns a value
\* (absent included) after it.
C12_FailurePropagates ==
    \A i \in 1..Len(calls) :
        CallFails(i) =>
            /\ i = Len(calls)
            /\ pc \in {"awaitLastUsed", "awaitResolve", "threw"}
            /\ ret = Undefined

\* C12 witness: the usage tracker failed and the invocation failed with it,
\* although the setting is set and could have been resolved.
C12_Witness ==
    /\ pc = "threw"
    /\ lastUsed = Failure
    /\ defaultInterpreterPath = Str("dflt")
    /\ calls = <<"getPythonEnvironment", "getLastUsedEnvInLmTool">>

\* An invocation has ended, with a value or with a failure.
Ended(p) == p \in {"returned", "threw"}

C15_ExcludedNeverLocal ==
    (pc = "returned" /\ calls = <<>>) =>
        \E i \in Kept : ret = known[i]

\* C15 witness: the only environment under the notebook's directory, which
\* is also the only one named .venv, is excluded, and step 1 has returned
\* the other known environment.
C15_Witness ==
    /\ pc = "returned"
    /\ calls = <<>>
    /\ Len(known) = 2
    /\ known[1].path \in excluded
    /\ LocatedUnder(known[1], NbDir)
    /\ RuleA(known[1])
    /\ ~RuleD(known[2])
    /\ ret = known[2]

\* An id or path that resolveEnvironment resolves to an environment record.
Resolves(key) == ~ResolveFails(key) /\ ResolveEnvironment(key) # Undefined

\* C16: the invocation returns absent only when none of the four sources
\* yields an environment record: a resolvable tracker entry or default path
\* is returned although an earlier source resolved to nothing.
C16_AbsentOnlyWhenAllEmpty ==
    (pc = "returned" /\ ret = Undefined) =>
        /\ ~HasLocalEnv
        /\ ~(Truthy(assigned) /\ Resolves(assigned.id))
        /\ ~(TrackerHasEntry /\ Resolves(lastUsed.value))
        /\ ~(DefaultIsSet /\ Resolves(defaultInterpreterPath.value))

\* The list with the name of its i-th environment replaced by name.
Renamed(envs, i, name) == [envs EXCEPT ![i].name = name]

\* The position in envs of the environment with the path of e, 0 for absent.
PositionOf(e, envs) ==
    IF e = Undefined THEN 0
    ELSE CHOOSE i \in 1..Len(envs) : envs[i].path = e.path

C18_FallbackFolder ==
    (pc = "returned" /\ ~HasEnvNextToNotebook) =>
        IF /\ StatedFallback # NoPath
           /\ \E i \in Kept : LocatedUnder(known[i], StatedFallback)
        THEN calls = <<>> /\ LocatedUnder(ret, StatedFallback)
        ELSE calls # <<>>

\* C18 witness: two workspace roots, neither holding the notebook, one of
\* them holding a kept environment, and step 1 has found nothing.
C18_Witness ==
    /\ pc = "returned"
    /\ workspaceFolders = <<RootV, RootX>>
    /\ \E i \in Kept : LocatedUnder(known[i], RootV)
    /\ calls # <<>>

TimesCalled(c) == Cardinality({i \in 1..Len(calls) : calls[i] = c})

\* C20: an invocation calls resolveEnvironment at most once and the usage
\* tracker at most once, and calls neither when step 1 finds an environment,
\* which is returned as the record of the known list itself.
C20_AtMostOneResolve ==
    /\ TimesCalled("resolveEnvironment") <= 1
    /\ TimesCalled("getLastUsedEnvInLmTool") <= 1
    /\ (pc = "returned" /\ HasLocalEnv) =>
          /\ TimesCalled("resolveEnvironment") = 0
          /\ TimesCalled("getLastUsedEnvInLmTool") = 0
          /\ \E i \in 1..Len(known) : ret = known[i]

\* C20 witness: an invocation has returned after one query of the usage
\* tracker and one call of resolveEnvironment, for the setting.
C20_Witness ==
    /\ pc = "returned"
    /\ calls = <<"getPythonEnvironment", "getLastUsedEnvInLmTool",
                 "getConfiguration", "resolveEnvironment">>
    /\ ret = [kind |-> "resolved", id |-> "dflt"]

\* While ipykernel is missing the prompt has been displayed once per
\* submission, the current one included from the moment the prompt is up.
PromptCountsRuns ==
    ~installed =>
        /\ displayCount <= runs
        /\ runs <= displayCount + 1
        /\ (kernel \in {"prompting", "dismissed", "installing"} =>
               displayCount = runs)
        /\ ((kernel = "none" /\ ~Busy) => displayCount = runs)

====
